---- MODULE Spec2Model ----
(***************************************************************************)
(* Model of excel_basic_functions.py: the header scan, region resolution   *)
(* and table extraction of from_excel_to_list_of_dataframes_multiple_      *)
(* headers.  Row indices are 0-based as in the Python code; TLA+ sequences *)
(* are 1-based, so row k of a sheet is element k+1 of its sequence.        *)
(***************************************************************************)
EXTENDS Integers, Sequences, FiniteSets, TLC

VARIABLES
    reference_df,            \* argument: grid of the reference file, column 0 = template name
    excel_workbook,          \* argument: the sheets of the workbook, each a grid of cells
    percentage_of_overlap,   \* argument: the threshold
    columns,                 \* str(col) of the column labels parse returns for a table
    pc,                      \* position in the function
    reference_header_sets,   \* dict name -> list of sets, in insertion order
    sheet_name,              \* position of the sheet being processed (0 before the first)
    row_sets,                \* projected rows of the current sheet
    header_ranges,           \* list of (header indices, end row)
    tmpl,                    \* position of the current item of reference_header_sets
    potential_header_indices,
    match_count,
    row_idx,                 \* next row the inner loop visits
    row_set,                 \* operands and result of the last overlap computation
    reference_set,
    overlap_percentage,
    i,                       \* loop variable of the end-row loop
    index,                   \* loop variable of the extraction loop
    dataframe_dict,          \* result: per sheet, the list of extracted tables
    found,                   \* history: the HeaderMatch (template, indices) behind each entry of header_ranges
    scan_log                 \* history: one record per comparison made on the current sheet

vars == <<reference_df, excel_workbook, percentage_of_overlap, columns, pc,
          reference_header_sets, sheet_name, row_sets, header_ranges, tmpl,
          potential_header_indices, match_count, row_idx, row_set,
          reference_set, overlap_percentage, i, index, dataframe_dict,
          found, scan_log>>

(***************************************************************************)
(* Values                                                                  *)
(***************************************************************************)
NaN == "NaN"        \* the absent cell
\* An optional integer (an end row or nrows): None, or Some(n) for the int n.
None == <<>>
Some(n) == <<n>>

\* Longest sheet, in rows, of the general specification.
MaxRows == 3
\* Longest reference grid, in rows, of the general specification.
MaxRefRows == 2

\* Rows a sheet is built from: an empty row, a row with a repeated value and
\* a row with two values.
RowPool == { <<NaN, NaN>>, <<"a", "a">>, <<"b", "a">> }
\* Cell parts of the rows of the reference grid.
RefPool == { <<NaN, NaN>>, <<NaN, "a">> }
\* Rows of the sheets of the six-row scenario.
ScenarioRows == { <<NaN, NaN>>, <<"a", "a">>, <<NaN, "b">> }
TemplateNames == {"A", "B"}
Thresholds == {0, 50, 100}

SeqsUpTo(S, n) == UNION { [1..k -> S] : k \in 0..n }

Range(s) == { s[k] : k \in DOMAIN s }
Last(s) == s[Len(s)]

(***************************************************************************)
(* Pure helpers                                                            *)
(***************************************************************************)
\* A positional projection: only the first cell of the row.
RowProjectorFirstCell(row) ==
    { row[k] : k \in { j \in DOMAIN row : j = 1 } } \ {NaN}

\* set(row.dropna())
RowProjector(row) == { row[k] : k \in DOMAIN row } \ {NaN}

\* Series.dropna()
DropNa(s) == SelectSeq(s, LAMBDA x : x # NaN)

\* Series.unique(): the distinct values in order of first appearance
RECURSIVE Unique(_)
Unique(s) ==
    IF s = <<>> THEN <<>>
    ELSE LET u == Unique(SubSeq(s, 1, Len(s) - 1))
         IN  IF Last(s) \in Range(u) THEN u ELSE Append(u, Last(s))

\* reference_df[0]
Column0(df) == [k \in 1..Len(df) |-> df[k][1]]

\* [set(row.dropna()) for row in reference_df[reference_df[0] == header].drop([0], axis=1)]
HeaderSets(df, header) ==
    LET header_rows == SelectSeq(df, LAMBDA r : r[1] = header)
    IN  [k \in 1..Len(header_rows) |-> RowProjector(Tail(header_rows[k]))]

\* The dict built by the precomputation loop, as the list of its items.
ReferenceHeaderSets(df) ==
    LET headers == Unique(DropNa(Column0(df)))
    IN  [k \in 1..Len(headers) |->
            [header |-> headers[k], header_sets |-> HeaderSets(df, headers[k])]]

\* The overlap over the sum of the two sizes instead of the size of the union.
OverlapOverSum(rs, ref) ==
    LET overlap == rs \cap ref
        total == Cardinality(rs) + Cardinality(ref)
    IN  IF total # 0
        THEN <<Cardinality(overlap) * 100, total>>
        ELSE <<100, 1>>

\* The overlap with 0 instead of 100 for an empty universe.
OverlapEmptyIsZero(rs, ref) ==
    LET overlap == rs \cap ref
        universe == rs \cup ref
    IN  IF Cardinality(universe) # 0
        THEN <<Cardinality(overlap) * 100, Cardinality(universe)>>
        ELSE <<0, 1>>

\* The overlap percentage as the exact fraction <<numerator, denominator>> of
\* the float (len(overlap) / len(universe)) * 100; 100 for an empty universe.
OverlapPercentage(rs, ref) ==
    LET overlap == rs \cap ref
        universe == rs \cup ref
    IN  IF Cardinality(universe) # 0
        THEN <<Cardinality(overlap) * 100, Cardinality(universe)>>
        ELSE <<100, 1>>

\* The comparison with > in place of >=.
MeetsThresholdStrictly(op, threshold) == op[1] > threshold * op[2]

\* overlap_percentage >= percentage_of_overlap
MeetsThreshold(op, threshold) == op[1] >= threshold * op[2]

(***************************************************************************)
(* Column labels: a label is the sequence of its characters                *)
(***************************************************************************)
\* Line 5: the 31 characters of SPECIAL_CHARACTERS, in order.  The last one,
\* the grave accent, cannot be written in a TLA+ string and is spelled out.
SPECIAL_CHARACTERS ==
    << "!", "@", "#", "$", "%", "^", "&", "*", "(", ")", "_", "+", "=", "{",
       "}", "[", "]", "|", "\\", ":", ";", "'", "\"", "<", ">", ",", ".", "?",
       "/", "~", "grave" >>

\* Line 21: the literal 'Unnamed'
Unnamed == <<"U", "n", "n", "a", "m", "e", "d">>

\* Line 22: the literal ", "
CommaSpace == <<",", " ">>

\* Characters str.strip() removes (those of them the labels are built from)
Whitespace == {" ", "\t", "\n"}

\* sub in s
Contains(s, sub) ==
    \E k \in 1..(Len(s) - Len(sub) + 1) : SubSeq(s, k, k + Len(sub) - 1) = sub

\* s.split(sep)[-1]: what follows the last occurrence of sep, or s itself
LastSegment(s, sep) ==
    LET at == { k \in 1..(Len(s) - Len(sep) + 1) :
                    SubSeq(s, k, k + Len(sep) - 1) = sep }
    IN  IF at = {} THEN s
        ELSE LET k == CHOOSE m \in at : \A n \in at : n <= m
             IN  SubSeq(s, k + Len(sep), Len(s))

\* s.replace(char, "")
Replace(s, char) == SelectSeq(s, LAMBDA x : x # char)

\* Lines 23-24: the loop over special_chars, from the n-th character on
RECURSIVE RemoveSpecial(_, _, _)
RemoveSpecial(s, special_chars, n) ==
    IF n > Len(special_chars) THEN s
    ELSE RemoveSpecial(Replace(s, special_chars[n]), special_chars, n + 1)

\* s.strip()
RECURSIVE Strip(_)
Strip(s) ==
    IF s = <<>> THEN s
    ELSE IF s[1] \in Whitespace THEN Strip(Tail(s))
    ELSE IF Last(s) \in Whitespace THEN Strip(SubSeq(s, 1, Len(s) - 1))
    ELSE s

\* clean_column_name without the final strip().
CleanWithoutStrip(column_name, special_chars) ==
    LET reduced == IF Contains(column_name, Unnamed)
                   THEN LastSegment(column_name, CommaSpace)
                   ELSE column_name
    IN  RemoveSpecial(reduced, special_chars, 1)

\* Lines 10-25
clean_column_name(column_name, special_chars) ==
    LET reduced == IF Contains(column_name, Unnamed)
                   THEN LastSegment(column_name, CommaSpace)
                   ELSE column_name
    IN  Strip(RemoveSpecial(reduced, special_chars, 1))

\* Line 103: f"Unnamed_{i}"
Placeholder(k) == Unnamed \o <<"_", ToString(k)>>

\* Line 103: the final label of column k (0-based) whose str(col) is raw
FinalLabel(raw, k) ==
    IF raw # <<>> THEN clean_column_name(raw, SPECIAL_CHARACTERS)
    ELSE Placeholder(k)

\* Line 103: the list comprehension over enumerate(excel_dataframe.columns)
CleanedColumns(cols) == [k \in 1..Len(cols) |-> FinalLabel(cols[k], k - 1)]

\* The labels parse returns in the general specification: a plain one and
\* "Unnamed: 1", the name pandas gives to a column with a blank header cell.
PlainColumns ==
    << <<"x">>, <<"U", "n", "n", "a", "m", "e", "d", ":", " ", "1">> >>

(***************************************************************************)
(* Initial states                                                          *)
(***************************************************************************)
Sheets == SeqsUpTo(RowPool, MaxRows)
ReferenceRows == { <<n>> \o c : n \in TemplateNames, c \in RefPool }
ReferenceGrids == SeqsUpTo(ReferenceRows, MaxRefRows)

Start ==
    /\ pc = "load"
    /\ reference_header_sets = <<>>
    /\ sheet_name = 0
    /\ row_sets = <<>>
    /\ header_ranges = <<>>
    /\ tmpl = 0
    /\ potential_header_indices = <<>>
    /\ match_count = 0
    /\ row_idx = 0
    /\ row_set = {}
    /\ reference_set = {}
    /\ overlap_percentage = <<100, 1>>
    /\ i = 0
    /\ index = 0
    /\ dataframe_dict = <<>>
    /\ found = <<>>
    /\ scan_log = <<>>

Init ==
    /\ reference_df \in ReferenceGrids
    /\ excel_workbook \in { <<s>> : s \in Sheets }
    /\ percentage_of_overlap \in Thresholds
    /\ columns = PlainColumns
    /\ Start

\* The six-row scenario: a two-row template "A" and a one-row template "B",
\* in each order of their rows in the reference grid, and once with a row
\* whose name cell is absent in between; threshold 50.
ScenarioGrids ==
    LET A1 == <<"A", "a", NaN>>
        A2 == <<"A", NaN, "a">>
        B1 == <<"B", "b", NaN>>
        unnamed == <<NaN, "b", NaN>>
    IN  { <<A1, A2, B1>>, <<A1, B1, A2>>, <<B1, A1, A2>>, <<A1, unnamed, A2, B1>> }

InitScenario ==
    /\ reference_df \in ScenarioGrids
    /\ excel_workbook \in { <<s>> : s \in [1..6 -> ScenarioRows] }
    /\ percentage_of_overlap = 50
    /\ columns = PlainColumns
    /\ Start

\* Two sheets of at most two rows each, under the templates of the scenario
\* and every threshold.
SheetPairs ==
    LET short == UNION { [1..n -> ScenarioRows] : n \in 0..2 }
    IN  { <<s1, s2>> : s1 \in short, s2 \in short }

InitSheets ==
    /\ reference_df \in ScenarioGrids
    /\ excel_workbook \in SheetPairs
    /\ percentage_of_overlap \in Thresholds
    /\ columns = PlainColumns
    /\ Start

\* Most pieces a label of the label specification is made of.
MaxChunks == 3

\* Pieces of labels: the two halves of the marker 'Unnamed', the separator
\* ", " and its two characters, a special character and a plain one.
Chunks ==
    { <<"U", "n", "n", "a">>, <<"m", "e", "d">>, <<",", " ">>, <<",">>, <<" ">>,
      <<"_">>, <<"x">> }

RECURSIVE Flatten(_)
Flatten(ss) == IF ss = <<>> THEN <<>> ELSE Head(ss) \o Flatten(Tail(ss))

Labels == { Flatten(cs) : cs \in SeqsUpTo(Chunks, MaxChunks) }

\* The label specification: one template of one row that matches both rows
\* of the sheet, and every label as the first column before an empty label
\* and as the second column after a plain one.
InitLabels ==
    /\ reference_df = << <<"A", "a", NaN>> >>
    /\ excel_workbook = << << <<"a", "a">>, <<NaN, "a">> >> >>
    /\ percentage_of_overlap = 100
    /\ columns \in { <<l, m>> : l \in Labels, m \in { <<>> } }
                   \cup { <<m, l>> : l \in Labels, m \in { <<"x">> } }
    /\ Start

inputs == <<reference_df, excel_workbook, percentage_of_overlap, columns>>

\* Line 50: reference_df has a column labelled 0.  read_excel(header=None)
\* of a file without cells returns a frame without columns, and
\* reference_df[0] then raises KeyError.
HasColumn0(df) == df # <<>>

(***************************************************************************)
(* Lines 39-53: load both files and precompute the reference header sets.  *)
(* The KeyError of line 50 is not caught.                                  *)
(***************************************************************************)
LoadReference ==
    /\ pc = "load"
    /\ IF HasColumn0(reference_df)
       THEN /\ reference_header_sets' = ReferenceHeaderSets(reference_df)
            /\ pc' = "sheets"
       ELSE /\ reference_header_sets' = reference_header_sets
            /\ pc' = "error"
    /\ dataframe_dict' = <<>>
    /\ UNCHANGED <<inputs, sheet_name, row_sets, header_ranges, tmpl,
                   potential_header_indices, match_count, row_idx, row_set,
                   reference_set, overlap_percentage, i, index, found, scan_log>>

(***************************************************************************)
(* Lines 56-66: next sheet; its table dict starts empty, its rows are      *)
(* projected and its header ranges start empty                             *)
(***************************************************************************)
BeginSheet ==
    /\ pc = "sheets"
    /\ sheet_name < Len(excel_workbook)
    /\ sheet_name' = sheet_name + 1
    /\ dataframe_dict' = Append(dataframe_dict, <<>>)
    /\ LET sheet_df == excel_workbook[sheet_name + 1]
       IN  row_sets' = [k \in 1..Len(sheet_df) |-> RowProjector(sheet_df[k])]
    /\ header_ranges' = <<>>
    /\ found' = <<>>
    /\ scan_log' = <<>>
    /\ tmpl' = 0
    /\ pc' = "templates"
    /\ UNCHANGED <<inputs, reference_header_sets, potential_header_indices,
                   match_count, row_idx, row_set, reference_set,
                   overlap_percentage, i, index>>

(***************************************************************************)
(* Line 109: all sheets processed, return dataframe_dict                   *)
(***************************************************************************)
Return ==
    /\ pc = "sheets"
    /\ sheet_name = Len(excel_workbook)
    /\ pc' = "done"
    /\ UNCHANGED <<inputs, reference_header_sets, sheet_name, row_sets,
                   header_ranges, tmpl, potential_header_indices, match_count,
                   row_idx, row_set, reference_set, overlap_percentage, i,
                   index, dataframe_dict, found, scan_log>>

\* The next template starts with the previous template's counter and indices.
BeginTemplateKeepsState ==
    /\ pc = "templates"
    /\ tmpl < Len(reference_header_sets)
    /\ tmpl' = tmpl + 1
    /\ row_idx' = 0
    /\ pc' = "rows"
    /\ UNCHANGED <<inputs, reference_header_sets, sheet_name, row_sets,
                   header_ranges, potential_header_indices, match_count,
                   row_set, reference_set, overlap_percentage,
                   i, index, dataframe_dict, found, scan_log>>

(***************************************************************************)
(* Lines 69-71: next template; fresh indices and counter                   *)
(***************************************************************************)
BeginTemplate ==
    /\ pc = "templates"
    /\ tmpl < Len(reference_header_sets)
    /\ tmpl' = tmpl + 1
    /\ potential_header_indices' = <<>>
    /\ match_count' = 0
    /\ row_idx' = 0
    /\ pc' = "rows"
    /\ UNCHANGED <<inputs, reference_header_sets, sheet_name, row_sets,
                   header_ranges, row_set, reference_set, overlap_percentage,
                   i, index, dataframe_dict, found, scan_log>>

\* The template the scan is on.
reference_header == reference_header_sets[tmpl].header
header_sets == reference_header_sets[tmpl].header_sets

\* Compare without line 84: a mismatch drops the recorded indices but keeps
\* the counter.
CompareKeepsCount(count, indices, row, rs, hs, threshold) ==
    LET ref == hs[count + 1]
        op == OverlapPercentage(rs, ref)
        accepted == MeetsThreshold(op, threshold)
    IN  [reference_set |-> ref,
         overlap_percentage |-> op,
         accepted |-> accepted,
         match_count |-> IF accepted THEN count + 1 ELSE count,
         potential_header_indices |->
             IF accepted THEN Append(indices, row) ELSE <<>>]

\* Compare that always takes the first template row, header_sets[0].
CompareFirstRowOnly(count, indices, row, rs, hs, threshold) ==
    LET ref == hs[1]
        op == OverlapPercentage(rs, ref)
        accepted == MeetsThreshold(op, threshold)
    IN  [reference_set |-> ref,
         overlap_percentage |-> op,
         accepted |-> accepted,
         match_count |-> IF accepted THEN count + 1 ELSE 0,
         potential_header_indices |->
             IF accepted THEN Append(indices, row) ELSE <<>>]

\* Compare with a greedy restart: a row that fails a partial attempt is
\* tried again as the first row of a new attempt.
CompareRetries(count, indices, row, rs, hs, threshold) ==
    LET ref == hs[count + 1]
        op == OverlapPercentage(rs, ref)
        accepted == MeetsThreshold(op, threshold)
        restart == /\ ~accepted
                   /\ count > 0
                   /\ MeetsThreshold(OverlapPercentage(rs, hs[1]), threshold)
    IN  [reference_set |-> ref,
         overlap_percentage |-> op,
         accepted |-> accepted,
         match_count |-> IF accepted THEN count + 1
                         ELSE IF restart THEN 1 ELSE 0,
         potential_header_indices |->
             IF accepted THEN Append(indices, row)
             ELSE IF restart THEN <<row>> ELSE <<>>]

\* Compare without line 85: a failed row resets the counter only.
CompareKeepsIndices(count, indices, row, rs, hs, threshold) ==
    LET ref == hs[count + 1]
        op == OverlapPercentage(rs, ref)
        accepted == MeetsThreshold(op, threshold)
    IN  [reference_set |-> ref,
         overlap_percentage |-> op,
         accepted |-> accepted,
         match_count |-> IF accepted THEN count + 1 ELSE 0,
         potential_header_indices |->
             IF accepted THEN Append(indices, row) ELSE indices]

(***************************************************************************)
(* Lines 75-85: compare row number row, projected to rs, with the          *)
(* template row the counter points at; the result is the state after the   *)
(* if/else                                                                 *)
(***************************************************************************)
Compare(count, indices, row, rs, hs, threshold) ==
    LET ref == hs[count + 1]
        op == OverlapPercentage(rs, ref)
        accepted == MeetsThreshold(op, threshold)
    IN  [reference_set |-> ref,
         overlap_percentage |-> op,
         accepted |-> accepted,
         match_count |-> IF accepted THEN count + 1 ELSE 0,
         potential_header_indices |->
             IF accepted THEN Append(indices, row) ELSE <<>>]

\* Complete without line 90: the recorded indices survive an emitted match.
CompleteKeepsIndices(count, indices, hs) ==
    IF count = Len(hs)
    THEN [emitted |-> TRUE, indices |-> indices,
          match_count |-> 0, potential_header_indices |-> indices]
    ELSE [emitted |-> FALSE, indices |-> <<>>,
          match_count |-> count, potential_header_indices |-> indices]

(***************************************************************************)
(* Lines 87-90: a complete header set is appended (emitted, with its       *)
(* indices) and the counter and the recorded indices are reset             *)
(***************************************************************************)
Complete(count, indices, hs) ==
    IF count = Len(hs)
    THEN [emitted |-> TRUE, indices |-> indices,
          match_count |-> 0, potential_header_indices |-> <<>>]
    ELSE [emitted |-> FALSE, indices |-> <<>>,
          match_count |-> count, potential_header_indices |-> indices]

(***************************************************************************)
(* Lines 74-90: the body of the row loop for row number row, projected to  *)
(* rs, from the counter and indices it starts with.  compared tells        *)
(* whether the guard of line 74 held; the fields of the comparison mean    *)
(* nothing when it did not.                                                *)
(***************************************************************************)
RowBody(count, indices, row, rs, hs, threshold) ==
    LET compared == count < Len(hs)
        c == Compare(count, indices, row, rs, hs, threshold)
        indices1 == IF compared THEN c.potential_header_indices ELSE indices
        count1 == IF compared THEN c.match_count ELSE count
        d == Complete(count1, indices1, hs)
    IN  [compared |-> compared,
         accepted |-> compared /\ c.accepted,
         reference_set |-> IF compared THEN c.reference_set ELSE {},
         overlap_percentage |-> IF compared THEN c.overlap_percentage ELSE <<100, 1>>,
         emitted |-> d.emitted,
         indices |-> d.indices,
         match_count |-> d.match_count,
         potential_header_indices |-> d.potential_header_indices]

(***************************************************************************)
(* Lines 73-90: one iteration of the row loop                              *)
(***************************************************************************)
RowStep ==
    /\ pc = "rows"
    /\ row_idx < Len(row_sets)
    /\ LET rs == row_sets[row_idx + 1]
           b == RowBody(match_count, potential_header_indices, row_idx, rs,
                        header_sets, percentage_of_overlap)
       IN  /\ IF b.compared
              THEN /\ row_set' = rs
                   /\ reference_set' = b.reference_set
                   /\ overlap_percentage' = b.overlap_percentage
                   /\ scan_log' = Append(scan_log,
                          [header |-> reference_header, row |-> row_idx,
                           count |-> match_count, accepted |-> b.accepted])
              ELSE UNCHANGED <<row_set, reference_set, overlap_percentage,
                               scan_log>>
           /\ header_ranges' = IF b.emitted
                               THEN Append(header_ranges, <<b.indices, None>>)
                               ELSE header_ranges
           /\ found' = IF b.emitted
                       THEN Append(found, [header |-> reference_header,
                                           indices |-> b.indices])
                       ELSE found
           /\ match_count' = b.match_count
           /\ potential_header_indices' = b.potential_header_indices
    /\ row_idx' = row_idx + 1
    /\ UNCHANGED <<inputs, pc, reference_header_sets, sheet_name, row_sets,
                   tmpl, i, index, dataframe_dict>>

(***************************************************************************)
(* Lines 69-90 as a function of the inputs: the state of the scan of one   *)
(* template hs, started fresh, after the first n rows of the projected     *)
(* sheet rs, with the matches appended so far                              *)
(***************************************************************************)
RECURSIVE ScanRows(_, _, _, _)
ScanRows(rs, hs, threshold, n) ==
    IF n = 0
    THEN [match_count |-> 0, potential_header_indices |-> <<>>, matches |-> <<>>]
    ELSE LET before == ScanRows(rs, hs, threshold, n - 1)
             b == RowBody(before.match_count, before.potential_header_indices,
                          n - 1, rs[n], hs, threshold)
         IN  [match_count |-> b.match_count,
              potential_header_indices |-> b.potential_header_indices,
              matches |-> IF b.emitted THEN Append(before.matches, b.indices)
                          ELSE before.matches]

\* The matches of the first k templates of sets over rs, in loop order.
RECURSIVE MatchesOfTemplates(_, _, _, _)
MatchesOfTemplates(sets, rs, threshold, k) ==
    IF k = 0 THEN <<>>
    ELSE LET m == ScanRows(rs, sets[k].header_sets, threshold, Len(rs)).matches
         IN  MatchesOfTemplates(sets, rs, threshold, k - 1)
                 \o [j \in 1..Len(m) |-> [header |-> sets[k].header, indices |-> m[j]]]

\* Lines 49-90 as a function of the inputs: the HeaderMatches of a sheet.
HeaderMatches(df, sheet_df, threshold) ==
    LET sets == ReferenceHeaderSets(df)
        rs == [k \in 1..Len(sheet_df) |-> RowProjector(sheet_df[k])]
    IN  MatchesOfTemplates(sets, rs, threshold, Len(sets))

\* Line 73: the rows of the sheet are exhausted
EndRows ==
    /\ pc = "rows"
    /\ row_idx = Len(row_sets)
    /\ pc' = "templates"
    /\ UNCHANGED <<inputs, reference_header_sets, sheet_name, row_sets,
                   header_ranges, tmpl, potential_header_indices, match_count,
                   row_idx, row_set, reference_set, overlap_percentage, i,
                   index, dataframe_dict, found, scan_log>>

\* Line 69: the templates are exhausted
EndTemplates ==
    /\ pc = "templates"
    /\ tmpl = Len(reference_header_sets)
    /\ i' = 0
    /\ pc' = "ends"
    /\ UNCHANGED <<inputs, reference_header_sets, sheet_name, row_sets,
                   header_ranges, tmpl, potential_header_indices, match_count,
                   row_idx, row_set, reference_set, overlap_percentage,
                   index, dataframe_dict, found, scan_log>>

\* The end row without the "- 1": the next range's first header row itself.
EndRowIsNextStart(ranges, k) == ranges[k + 2][1][1]

\* Line 94: header_ranges[i + 1][0][0] - 1
EndRow(ranges, k) == ranges[k + 2][1][1] - 1

(***************************************************************************)
(* Lines 93-94: the end row of range i is the first header row of range    *)
(* i + 1, minus one                                                        *)
(***************************************************************************)
EndRowStep ==
    /\ pc = "ends"
    /\ i < Len(header_ranges) - 1
    /\ header_ranges' = [header_ranges EXCEPT
            ![i + 1] = <<header_ranges[i + 1][1], Some(EndRow(header_ranges, i))>>]
    /\ i' = i + 1
    /\ UNCHANGED <<inputs, pc, reference_header_sets, sheet_name, row_sets,
                   tmpl, potential_header_indices, match_count, row_idx,
                   row_set, reference_set, overlap_percentage, index,
                   dataframe_dict, found, scan_log>>

\* Line 93: range(len(header_ranges) - 1) is exhausted
EndEnds ==
    /\ pc = "ends"
    /\ i >= Len(header_ranges) - 1
    /\ index' = 0
    /\ pc' = "tables"
    /\ UNCHANGED <<inputs, reference_header_sets, sheet_name, row_sets,
                   header_ranges, tmpl, potential_header_indices, match_count,
                   row_idx, row_set, reference_set, overlap_percentage, i,
                   dataframe_dict, found, scan_log>>

\* Line 99: nrows = (end_row - start_row + 1) if end_row else None
\* (None and 0 are the falsy end rows)
NRows(start_row, end_row) ==
    IF end_row # None /\ end_row # Some(0)
    THEN Some(end_row[1] - start_row + 1)
    ELSE None

\* Line 100: the rows ExcelFile.parse(header=header_indices, nrows=nrows)
\* returns as data.  The rows of header are the column labels, data starts
\* on the row after the last header row, and nrows, when given, is the
\* number of data rows read (pandas counts nrows after the header).
ParsedRows(header_indices, nrows, sheet_len) ==
    LET first == Last(header_indices) + 1
    IN  { d \in first..(sheet_len - 1) : nrows = None \/ d < first + nrows[1] }

\* The key with the ordinal of enumerate(header_ranges) without start=1.
TableNameFromZero(sheet, k) == <<sheet, k>>

\* Lines 97 and 106: f'{sheet_name}_table_{index}', index counted from 1
\* (k is the number of header ranges before this one)
TableName(sheet, k) == <<sheet, k + 1>>

(***************************************************************************)
(* Lines 97-106: extract the table of one header range.  pandas rejects a  *)
(* negative nrows with a ValueError, which the function does not catch.    *)
(***************************************************************************)
ParseStep ==
    /\ pc = "tables"
    /\ index < Len(header_ranges)
    /\ LET header_indices == header_ranges[index + 1][1]
           end_row == header_ranges[index + 1][2]
           start_row == header_indices[1]
           nrows == NRows(start_row, end_row)
           excel_dataframe ==
               [name |-> TableName(sheet_name, index),
                header |-> header_indices,
                nrows |-> nrows,
                data |-> ParsedRows(header_indices, nrows, Len(row_sets)),
                columns |-> CleanedColumns(columns)]
       IN  IF nrows # None /\ nrows[1] < 0
           THEN /\ pc' = "error"
                /\ UNCHANGED <<index, dataframe_dict>>
           ELSE /\ dataframe_dict' = [dataframe_dict EXCEPT
                        ![sheet_name] = Append(@, excel_dataframe)]
                /\ index' = index + 1
                /\ pc' = pc
    /\ UNCHANGED <<inputs, reference_header_sets, sheet_name, row_sets,
                   header_ranges, tmpl, potential_header_indices, match_count,
                   row_idx, row_set, reference_set, overlap_percentage, i,
                   found, scan_log>>

\* Line 97: the header ranges are exhausted; on to the next sheet
EndTables ==
    /\ pc = "tables"
    /\ index = Len(header_ranges)
    /\ pc' = "sheets"
    /\ UNCHANGED <<inputs, reference_header_sets, sheet_name, row_sets,
                   header_ranges, tmpl, potential_header_indices, match_count,
                   row_idx, row_set, reference_set, overlap_percentage, i,
                   index, dataframe_dict, found, scan_log>>

Next ==
    \/ LoadReference
    \/ BeginSheet
    \/ Return
    \/ BeginTemplate
    \/ RowStep
    \/ EndRows
    \/ EndTemplates
    \/ EndRowStep
    \/ EndEnds
    \/ ParseStep
    \/ EndTables

Spec == Init /\ [][Next]_vars

SpecScenario == InitScenario /\ [][Next]_vars

SpecLabels == InitLabels /\ [][Next]_vars

SpecSheets == InitSheets /\ [][Next]_vars

(***************************************************************************)
(* Vocabulary of the properties                                            *)
(***************************************************************************)
\* The row sets of the template called name.
TemplateSets(name) ==
    (CHOOSE t \in Range(reference_header_sets) : t.header = name).header_sets

\* Sheet row number row reaches the threshold against the template row ref:
\* |S \cap T| / |S \cup T| * 100 >= threshold, with 100 for an empty union.
Satisfies(row, ref) ==
    LET S == row_sets[row + 1]
    IN  IF S \cup ref = {}
        THEN 100 >= percentage_of_overlap
        ELSE 100 * Cardinality(S \cap ref)
                 >= percentage_of_overlap * Cardinality(S \cup ref)

\* Every template has been scanned over the current sheet.
ScanDone == pc \in {"ends", "tables"}

\* The HeaderMatch with these indices was emitted for the template name.
Emitted(name, indices) ==
    \E k \in 1..Len(found) :
        found[k].header = name /\ header_ranges[k][1] = indices

(***************************************************************************)
(* C1: every HeaderMatch the scan appends has exactly len(template) row    *)
(* indices, the indices are consecutive and increasing, and the sheet row  *)
(* at the k-th index reaches the threshold against template[k].            *)
(***************************************************************************)
C1_MatchRowsConsecutive ==
    /\ Len(found) = Len(header_ranges)
    /\ \A k \in 1..Len(header_ranges) :
          LET indices == header_ranges[k][1]
              hs == TemplateSets(found[k].header)
          IN  /\ Len(indices) = Len(hs)
              /\ \A j \in 1..(Len(indices) - 1) : indices[j + 1] = indices[j] + 1
              /\ \A j \in 1..Len(indices) :
                    /\ indices[j] \in 0..(Len(row_sets) - 1)
                    /\ Satisfies(indices[j], hs[j])

\* A match of a two-row template was emitted at rows [0, 1] and the row
\* after it was rejected.
C1_Witness ==
    \E k \in 1..Len(header_ranges) :
        /\ header_ranges[k][1] = <<0, 1>>
        /\ \E e \in Range(scan_log) :
              e.header = found[k].header /\ e.row = 2 /\ ~e.accepted

(***************************************************************************)
(* C2, as claimed: for a two-row template [H1, H2], whenever adjacent      *)
(* sheet rows i and i+1 reach the threshold against H1 and H2, the scan    *)
(* emits the HeaderMatch [i, i+1], whatever the rows before i contain.     *)
(***************************************************************************)
C2_AdjacentRowsAlwaysMatch ==
    ScanDone =>
        \A t \in Range(reference_header_sets) :
            Len(t.header_sets) = 2 =>
                \A r \in 0..(Len(row_sets) - 2) :
                    (Satisfies(r, t.header_sets[1]) /\ Satisfies(r + 1, t.header_sets[2]))
                        => Emitted(t.header, <<r, r + 1>>)

(***************************************************************************)
(* C2, amended: for a two-row template [H1, H2], whenever the scan reaches *)
(* row i with match_count = 0 and rows i and i+1 reach the threshold       *)
(* against H1 and H2, the scan emits the HeaderMatch [i, i+1].             *)
(***************************************************************************)
C2_AdjacentRowsMatchFromZero ==
    ScanDone =>
        \A t \in Range(reference_header_sets) :
            Len(t.header_sets) = 2 =>
                \A r \in 0..(Len(row_sets) - 2) :
                    ( /\ \E e \in Range(scan_log) :
                            e.header = t.header /\ e.row = r /\ e.count = 0
                      /\ Satisfies(r, t.header_sets[1])
                      /\ Satisfies(r + 1, t.header_sets[2]) )
                        => Emitted(t.header, <<r, r + 1>>)

\* A two-row template with different rows matched at rows [1, 2], after a
\* row 0 that failed.
C2_Witness ==
    /\ ScanDone
    /\ \E t \in Range(reference_header_sets) :
          /\ Len(t.header_sets) = 2
          /\ t.header_sets[1] # t.header_sets[2]
          /\ Len(row_sets) >= 3
          /\ ~Satisfies(0, t.header_sets[1])
          /\ Satisfies(1, t.header_sets[1])
          /\ Satisfies(2, t.header_sets[2])
          /\ Emitted(t.header, <<1, 2>>)

(***************************************************************************)
(* C3: when row i fails the check against template[match_count] with      *)
(* match_count > 0, the state is reset (match_count = 0, no pending        *)
(* indices) and row i is not tried against template[0] in that step: no    *)
(* HeaderMatch of that template starts at row i, and the next attempt      *)
(* starts at row i+1 at the earliest.                                      *)
(***************************************************************************)
C3_FailedRowNotRetried ==
    /\ \A e \in Range(scan_log) :
          (e.count > 0 /\ ~e.accepted) =>
              \A k \in 1..Len(found) :
                  found[k].header = e.header => header_ranges[k][1][1] # e.row
    /\ (pc = "rows" /\ scan_log # <<>>) =>
          LET e == Last(scan_log)
          IN  ( /\ e.header = reference_header
                /\ e.row = row_idx - 1
                /\ e.count > 0
                /\ ~e.accepted )
                  => match_count = 0 /\ potential_header_indices = <<>>

\* The scan is over and a row that failed a partial attempt reaches the
\* threshold against the first template row, with the next row reaching it
\* against the second.
C3_Witness ==
    /\ ScanDone
    /\ \E e \in Range(scan_log) :
          /\ e.count > 0
          /\ ~e.accepted
          /\ Len(TemplateSets(e.header)) = 2
          /\ Satisfies(e.row, TemplateSets(e.header)[1])
          /\ e.row + 1 < Len(row_sets)
          /\ Satisfies(e.row + 1, TemplateSets(e.header)[2])

(***************************************************************************)
(* Regions                                                                 *)
(***************************************************************************)
\* The end rows of the current sheet's header ranges are resolved.
Resolved ==
    \/ pc \in {"tables", "error"}
    \/ pc \in {"sheets", "done"} /\ sheet_name >= 1

\* The TableRegions of the current sheet: (start_row, end_row) per range.
Regions ==
    [k \in 1..Len(header_ranges) |-> <<header_ranges[k][1][1], header_ranges[k][2]>>]

\* Position of the template called name in the template loop.
LoopPosition(name) ==
    CHOOSE k \in 1..Len(reference_header_sets) : reference_header_sets[k].header = name

(***************************************************************************)
(* C4, as claimed: the TableRegions of a sheet are ordered by increasing   *)
(* start row and pairwise non-overlapping: every resolved region has       *)
(* start_row <= end_row and region i's end_row is strictly less than       *)
(* region i+1's start_row.                                                 *)
(***************************************************************************)
C4_RegionsOrderedDisjoint ==
    Resolved =>
        \A k \in 1..(Len(Regions) - 1) :
            /\ Regions[k][2] # None
            /\ Regions[k][1] <= Regions[k][2][1]
            /\ Regions[k][2][1] < Regions[k + 1][1]
            /\ Regions[k][1] < Regions[k + 1][1]

(***************************************************************************)
(* C5: region resolution yields exactly one region per HeaderMatch, in     *)
(* discovery order (template loop order, then occurrence order within a    *)
(* template): region i starts at the first row index of match i, ends at   *)
(* the first row index of match i+1 minus one, and the final region's end  *)
(* stays None.                                                             *)
(***************************************************************************)
C5_RegionPerMatchInDiscoveryOrder ==
    Resolved =>
        /\ Len(Regions) = Len(found)
        /\ \A k \in 1..Len(found) :
              /\ header_ranges[k][1] = found[k].indices
              /\ Regions[k][1] = found[k].indices[1]
              /\ Regions[k][2] = IF k < Len(found)
                                 THEN Some(found[k + 1].indices[1] - 1)
                                 ELSE None
        /\ \A k, l \in 1..Len(found) :
              k < l =>
                 \/ LoopPosition(found[k].header) < LoopPosition(found[l].header)
                 \/ /\ found[k].header = found[l].header
                    /\ found[k].indices[1] < found[l].indices[1]

\* Resolved regions of two templates, the second discovered match starting
\* no later than the first.
C5_Witness ==
    /\ Resolved
    /\ Len(found) >= 2
    /\ found[1].header # found[2].header
    /\ found[2].indices[1] <= found[1].indices[1]
    /\ Regions[1][2] # None

(***************************************************************************)
(* C6, as claimed: when the two-row template matches only at rows [0, 1]   *)
(* and the one-row template matches only at row [5], with threshold 50,    *)
(* the regions are exactly (0, 4) and (5, end), whichever template comes   *)
(* first in the reference document.                                        *)
(***************************************************************************)
C6_TwoTemplatesRegions ==
    ( /\ Resolved
      /\ percentage_of_overlap = 50
      /\ \E tA, tB \in Range(reference_header_sets) :
            /\ Len(tA.header_sets) = 2
            /\ Len(tB.header_sets) = 1
            /\ Range(found) = { [header |-> tA.header, indices |-> <<0, 1>>],
                                [header |-> tB.header, indices |-> <<5>>] } )
        => Regions = << <<0, Some(4)>>, <<5, None>> >>

(***************************************************************************)
(* C7, as claimed: for a 6-row sheet where rows 0-1 match the two-row      *)
(* template T1 and row 4 matches the one-row template T2, threshold 50,    *)
(* extraction completes with exactly two tables, table 1 with header rows  *)
(* 0-1 and data rows 2-3 only, table 2 with header row 4 and data row 5;   *)
(* in general the header and data rows of a table are exactly the rows     *)
(* start_row..end_row of its region.                                       *)
(***************************************************************************)
C7_TablesCoverTheirRegion ==
    /\ ( /\ Resolved
         /\ percentage_of_overlap = 50
         /\ Len(row_sets) = 6
         /\ \E t1, t2 \in Range(reference_header_sets) :
               /\ Len(t1.header_sets) = 2
               /\ Len(t2.header_sets) = 1
               /\ Range(found) = { [header |-> t1.header, indices |-> <<0, 1>>],
                                   [header |-> t2.header, indices |-> <<4>>] } )
           => /\ pc # "error"
              /\ pc = "done" =>
                    /\ Len(dataframe_dict[1]) = 2
                    /\ dataframe_dict[1][1].name = <<1, 1>>
                    /\ dataframe_dict[1][1].header = <<0, 1>>
                    /\ dataframe_dict[1][1].data = {2, 3}
                    /\ dataframe_dict[1][2].name = <<1, 2>>
                    /\ dataframe_dict[1][2].header = <<4>>
                    /\ dataframe_dict[1][2].data = {5}
    /\ (pc \in {"tables", "sheets", "done"} /\ sheet_name >= 1) =>
          \A k \in 1..Len(dataframe_dict[sheet_name]) :
              LET table == dataframe_dict[sheet_name][k]
                  last == IF Regions[k][2] = None
                          THEN Len(row_sets) - 1
                          ELSE Regions[k][2][1]
              IN  Range(table.header) \cup table.data = Regions[k][1]..last

(***************************************************************************)
(* C8: the overlap percentage computed for a sheet row set S and a         *)
(* template row set T equals |S \cap T| / |S \cup T| * 100, and 100 when   *)
(* S \cup T is empty; the row is accepted exactly when that value is >=    *)
(* the threshold.                                                          *)
(***************************************************************************)
C8_OverlapFormulaInclusive ==
    (pc = "rows" /\ scan_log # <<>>) =>
        LET e == Last(scan_log)
            S == row_sets[e.row + 1]
            T == TemplateSets(e.header)[e.count + 1]
            value == overlap_percentage
            recorded ==
                \/ /\ potential_header_indices # <<>>
                   /\ Last(potential_header_indices) = e.row
                   /\ match_count = e.count + 1
                \/ /\ header_ranges # <<>>
                   /\ Last(found).header = e.header
                   /\ Last(Last(header_ranges)[1]) = e.row
                   /\ match_count = 0
        IN  /\ row_set = S
            /\ reference_set = T
            /\ value[2] > 0
            /\ IF S \cup T = {}
               THEN value[1] = 100 * value[2]
               ELSE value[1] * Cardinality(S \cup T)
                        = 100 * Cardinality(S \cap T) * value[2]
            /\ e.accepted <=> Satisfies(e.row, T)
            /\ (e.header = reference_header /\ e.row = row_idx - 1) =>
                  (e.accepted <=> recorded)

\* A row whose overlap is exactly the threshold, 50, was accepted.
C8_Witness ==
    /\ pc = "rows"
    /\ scan_log # <<>>
    /\ percentage_of_overlap = 50
    /\ overlap_percentage = <<100, 2>>
    /\ Last(scan_log).accepted
    /\ Last(scan_log).row = row_idx - 1
    /\ match_count = 1

(***************************************************************************)
(* C9: overlap(A, B) = overlap(B, A); overlap(A, B) = 100 iff A = B        *)
(* (both empty included); overlap(A, B) = 0 iff A \cap B is empty and at   *)
(* least one of A, B is non-empty.                                         *)
(***************************************************************************)
C9_OverlapAlgebra ==
    scan_log # <<>> =>
        LET A == row_set
            B == reference_set
            value == overlap_percentage
        IN  /\ OverlapPercentage(B, A) = value
            /\ (value[1] = 100 * value[2]) <=> (A = B)
            /\ (value[1] = 0) <=> (A \cap B = {} /\ (A # {} \/ B # {}))

\* The last comparison was between two different sets that share a value.
C9_Witness ==
    /\ scan_log # <<>>
    /\ row_set # reference_set
    /\ row_set \cap reference_set # {}
    /\ overlap_percentage[1] # 0

(***************************************************************************)
(* C10: against an empty template row and with a threshold above 0, a      *)
(* sheet row is accepted if and only if its set is empty too; a non-empty  *)
(* row is never accepted.                                                  *)
(***************************************************************************)
C10_EmptyTemplateRow ==
    percentage_of_overlap > 0 =>
        /\ \A e \in Range(scan_log) :
              TemplateSets(e.header)[e.count + 1] = {} =>
                  (e.accepted <=> row_sets[e.row + 1] = {})
        /\ ScanDone =>
              \A t \in Range(reference_header_sets) :
                  t.header_sets = << {} >> =>
                      \A r \in 0..(Len(row_sets) - 1) :
                          Emitted(t.header, <<r>>) <=> row_sets[r + 1] = {}

\* A template made of one empty row was scanned over a sheet with an empty
\* and a non-empty row: it matched the former only.
C10_Witness ==
    /\ ScanDone
    /\ percentage_of_overlap > 0
    /\ \E t \in Range(reference_header_sets) :
          /\ t.header_sets = << {} >>
          /\ \E r1, r2 \in 0..(Len(row_sets) - 1) :
                /\ row_sets[r1 + 1] = {}
                /\ row_sets[r2 + 1] # {}
                /\ Emitted(t.header, <<r1>>)
                /\ ~Emitted(t.header, <<r2>>)

(***************************************************************************)
(* C11, as claimed: when the reference document is fully empty (no rows,   *)
(* no templates), extraction does not fail and returns a result in which   *)
(* every sheet name of the workbook is a key mapped to an empty table      *)
(* collection.                                                             *)
(***************************************************************************)
C11_EmptyReferenceYieldsEmptyTables ==
    reference_df = <<>> =>
        /\ pc # "error"
        /\ pc = "done" =>
              /\ Len(dataframe_dict) = Len(excel_workbook)
              /\ \A s \in 1..Len(dataframe_dict) : dataframe_dict[s] = <<>>

Tables == IF sheet_name >= 1 THEN dataframe_dict[sheet_name] ELSE <<>>

IsSpecial(char) == \E n \in 1..Len(SPECIAL_CHARACTERS) : SPECIAL_CHARACTERS[n] = char

(***************************************************************************)
(* C13: clean_column_name is idempotent with the default special           *)
(* characters, clean(clean(x)) = clean(x), and its result contains no      *)
(* special character and no leading or trailing whitespace.                *)
(***************************************************************************)
C13_CleanIdempotent ==
    \A t \in 1..Len(Tables) :
        \A k \in 1..Len(columns) :
            columns[k] # <<>> =>
                LET once == Tables[t].columns[k]
                IN  /\ once = clean_column_name(columns[k], SPECIAL_CHARACTERS)
                    /\ clean_column_name(once, SPECIAL_CHARACTERS) = once
                    /\ \A j \in 1..Len(once) : ~IsSpecial(once[j])
                    /\ once # <<>> =>
                          (once[1] \notin Whitespace /\ Last(once) \notin Whitespace)

\* A table was extracted with a label that held the marker, the separator,
\* a special character and inner whitespace to trim, and that cleaning
\* changed into a label that still holds the marker.
C13_Witness ==
    /\ Len(Tables) >= 1
    /\ \E k \in 1..Len(columns) :
          /\ Contains(columns[k], Unnamed)
          /\ Contains(columns[k], CommaSpace)
          /\ \E j \in 1..Len(columns[k]) : IsSpecial(columns[k][j])
          /\ Tables[1].columns[k] # columns[k]
          /\ Contains(Tables[1].columns[k], Unnamed)

(***************************************************************************)
(* C14, as claimed: for every column of an extracted table, if the cleaned *)
(* label is empty the column's final label is the positional placeholder   *)
(* Unnamed_<position>; no extracted table has an empty column label.       *)
(***************************************************************************)
C14_EmptyLabelGetsPlaceholder ==
    \A t \in 1..Len(Tables) :
        \A k \in 1..Len(columns) :
            /\ Tables[t].columns[k] # <<>>
            /\ clean_column_name(columns[k], SPECIAL_CHARACTERS) = <<>> =>
                  Tables[t].columns[k] = Unnamed \o <<"_", ToString(k - 1)>>

(***************************************************************************)
(* Permutations of cells                                                   *)
(***************************************************************************)
\* The sheet being processed.
sheet_df == excel_workbook[sheet_name]

\* The rows obtained from row by permuting its cells.
RowVariants(row) ==
    { [j \in DOMAIN row |-> row[p[j]]] : p \in Permutations(DOMAIN row) }

\* The grids obtained from grid by permuting the cells inside its rows, the
\* first keep cells of every row staying in place.
GridVariants(grid, keep) ==
    LET variants(row) ==
            { SubSeq(row, 1, keep) \o v :
                  v \in RowVariants(SubSeq(row, keep + 1, Len(row))) }
    IN  { g \in [1..Len(grid) -> UNION { variants(grid[k]) : k \in 1..Len(grid) }] :
              \A k \in 1..Len(grid) : g[k] \in variants(grid[k]) }

(***************************************************************************)
(* C15: row projection drops every absent cell and does not depend on cell *)
(* position or duplicate count: permuting a row's cells or repeating a     *)
(* value yields the same RowSet, so the HeaderMatches found on a sheet are *)
(* the same when the cells inside any sheet row or template row are        *)
(* permuted.                                                               *)
(***************************************************************************)
C15_ProjectionIgnoresPositions ==
    /\ (sheet_name >= 1 /\ pc # "load") =>
          \A k \in 1..Len(sheet_df) :
              LET row == sheet_df[k]
              IN  /\ NaN \notin row_sets[k]
                  /\ \A j \in DOMAIN row : row[j] # NaN => row[j] \in row_sets[k]
                  /\ \A v \in row_sets[k] : \E j \in DOMAIN row : row[j] = v
                  /\ \A r \in RowVariants(row) : RowProjector(r) = row_sets[k]
                  /\ RowProjector(row \o row) = row_sets[k]
    /\ pc = "ends" =>
          \A g \in GridVariants(reference_df, 1) :
              \A sh \in GridVariants(sheet_df, 0) :
                  HeaderMatches(g, sh, percentage_of_overlap) = found

\* The scan found a match on a sheet with a row that holds an absent cell
\* before a value and a row that holds one value twice, for a template with
\* a row that holds an absent cell before a value.
C15_Witness ==
    /\ pc = "ends"
    /\ found # <<>>
    /\ \E k \in 1..Len(sheet_df) : sheet_df[k][1] = NaN /\ sheet_df[k][2] # NaN
    /\ \E k \in 1..Len(sheet_df) : sheet_df[k][1] # NaN /\ sheet_df[k][1] = sheet_df[k][2]
    /\ \E k \in 1..Len(reference_df) :
          /\ reference_df[k][1] = found[1].header
          /\ reference_df[k][2] = NaN
          /\ reference_df[k][3] # NaN

(***************************************************************************)
(* C16, as claimed: only the final region of a sheet is extracted          *)
(* unbounded: for every non-final region, whatever its resolved end_row    *)
(* (end_row = 0 included), extraction uses the finite row bound            *)
(* nrows = end_row - start_row + 1, and nrows >= 1.                        *)
(***************************************************************************)
C16_OnlyFinalRegionUnbounded ==
    Resolved =>
        /\ \A k \in 1..Len(Regions) :
              LET start_row == Regions[k][1]
                  end_row == Regions[k][2]
                  nrows == NRows(start_row, end_row)
              IN  IF k = Len(Regions)
                  THEN nrows = None
                  ELSE /\ end_row # None
                       /\ nrows = Some(end_row[1] - start_row + 1)
                       /\ nrows[1] >= 1
        /\ \A k \in 1..Len(Tables) :
              (Tables[k].nrows = None) <=> (k = Len(Regions))

(***************************************************************************)
(* Matches per template                                                    *)
(***************************************************************************)
\* The indices of the matches of the template called name in ms, in order.
MatchesOf(ms, name) ==
    LET IsOfName(m) == m.header = name
        own == SelectSeq(ms, IsOfName)
    IN  [k \in 1..Len(own) |-> own[k].indices]

\* The reference grid that holds the rows of the template called name only.
TemplateAlone(name) ==
    LET IsOfName(row) == row[1] = name
    IN  SelectSeq(reference_df, IsOfName)

(***************************************************************************)
(* C17: matching state is fresh for each (template, sheet) pair: the       *)
(* HeaderMatches a template yields on a sheet depend only on that          *)
(* template, that sheet's rows and the threshold, and are the same         *)
(* whatever other templates the reference set holds, whatever the          *)
(* template iteration order, and whatever sheets were processed before.    *)
(***************************************************************************)
C17_MatchingStateFresh ==
    /\ (pc = "rows" /\ row_idx = 0) =>
          match_count = 0 /\ potential_header_indices = <<>>
    /\ ScanDone =>
          \A t \in Range(reference_header_sets) :
              LET rs == [k \in 1..Len(sheet_df) |-> RowProjector(sheet_df[k])]
              IN  /\ MatchesOf(found, t.header)
                         = ScanRows(rs, t.header_sets, percentage_of_overlap,
                                    Len(rs)).matches
                  /\ \A g \in ScenarioGrids \cup {TemplateAlone(t.header)} :
                        t \in Range(ReferenceHeaderSets(g)) =>
                            MatchesOf(HeaderMatches(g, sheet_df, percentage_of_overlap),
                                      t.header)
                                = MatchesOf(found, t.header)

\* The second sheet, different from the first one, has been scanned after
\* the first sheet yielded a table; on it a two-row template ended its scan
\* inside an attempt, and a template scanned after it matched.
C17_Witness ==
    /\ ScanDone
    /\ sheet_name = 2
    /\ excel_workbook[1] # excel_workbook[2]
    /\ dataframe_dict[1] # <<>>
    /\ \E e \in Range(scan_log) :
          /\ e.row = Len(row_sets) - 1
          /\ e.accepted
          /\ e.count = 0
          /\ Len(TemplateSets(e.header)) = 2
          /\ \E k \in 1..Len(found) :
                LoopPosition(found[k].header) > LoopPosition(e.header)

(***************************************************************************)
(* C18: throughout the scan of a template over a sheet, after every row    *)
(* step, 0 <= match_count < len(template), the number of pending indices   *)
(* equals match_count, and the pending indices are exactly the match_count *)
(* rows immediately preceding the next row to scan; so the guard           *)
(* match_count < len(template) holds at the start of every row step and    *)
(* every row is compared.                                                  *)
(***************************************************************************)
C18_PendingIndicesTrackCount ==
    pc = "rows" =>
        /\ 0 <= match_count
        /\ match_count < Len(header_sets)
        /\ Len(potential_header_indices) = match_count
        /\ potential_header_indices
               = [k \in 1..match_count |-> row_idx - match_count + k - 1]
        /\ \A r \in 0..(row_idx - 1) :
              \E e \in Range(scan_log) : e.header = reference_header /\ e.row = r

\* The scan is inside an attempt that started after a failed row.
C18_Witness ==
    /\ pc = "rows"
    /\ match_count = 1
    /\ row_idx >= 2
    /\ potential_header_indices = <<row_idx - 1>>
    /\ \E e \in Range(scan_log) :
          e.header = reference_header /\ e.count = 1 /\ ~e.accepted

(***************************************************************************)
(* C19: the HeaderMatches of one template on one sheet are emitted in      *)
(* strictly increasing row order and are pairwise disjoint (each sheet row *)
(* belongs to at most one match of that template); after a match ending at *)
(* row j is emitted the scan resumes at row j+1 with match_count = 0, so a *)
(* second occurrence of the template starting at row j+1 is also emitted.  *)
(***************************************************************************)
C19_MatchesIncreasingAndResumed ==
    /\ \A k, l \in 1..Len(found) :
          (k < l /\ found[k].header = found[l].header) =>
              /\ Last(found[k].indices) < found[l].indices[1]
              /\ Range(found[k].indices) \cap Range(found[l].indices) = {}
    /\ ( /\ pc = "rows"
         /\ found # <<>>
         /\ Last(found).header = reference_header
         /\ Last(Last(found).indices) = row_idx - 1 )
           => match_count = 0 /\ potential_header_indices = <<>>
    /\ ScanDone =>
          \A k \in 1..Len(found) :
              LET hs == TemplateSets(found[k].header)
                  j == Last(found[k].indices)
                  next == [n \in 1..Len(hs) |-> j + n]
              IN  ( /\ j + Len(hs) <= Len(row_sets) - 1
                    /\ \A n \in 1..Len(hs) : Satisfies(j + n, hs[n]) )
                      => Emitted(found[k].header, next)

\* A two-row template matched at rows [0, 1] and again, right after, at
\* rows [2, 3].
C19_Witness ==
    /\ ScanDone
    /\ \E k, l \in 1..Len(found) :
          /\ found[k].header = found[l].header
          /\ found[k].indices = <<0, 1>>
          /\ found[l].indices = <<2, 3>>

====
